---- MODULE Spec2Model ----
(***************************************************************************)
(* Content pipeline of the blog: the post repository (get_all_posts,       *)
(* get_post_by_path, extract_post) of crates/site-app/src/posts.rs and the *)
(* two event-stream transformers (add_markdown_heading_ids,                *)
(* highlight_code) of app/src/markdown.rs.                                 *)
(*                                                                         *)
(* Strings are sequences of code points.  written_on strings are built     *)
(* from the characters of Digits (the order of the digits is the order of  *)
(* their code points); heading and code text uses ASCII code points.       *)
(***************************************************************************)
EXTENDS Integers, Sequences, FiniteSets, TLC

\* ---- bounds ----
NumStems == 2
MaxDateLen == 2
MaxEvents == 5

VARIABLES
  content_dir,       \* whether ./content/posts exists
  files,             \* stem -> what ./content/posts/{stem}.md is
  listing,           \* what the last get_all_posts call gave its caller
  lookup,            \* stem -> what the last get_post_by_path(stem) call gave
  events,            \* the Vec<Event> handed to the transformer
  pc,                \* where the transformer is
  cursor,            \* index of the next event of the for loop
  parsing_header, heading_id, events_to_return,
  in_code_block, syntax, to_highlight, out_events

postVars == <<content_dir, files, listing, lookup>>

loopVars == <<events, pc, cursor>>

headingVars == <<parsing_header, heading_id, events_to_return>>

codeVars == <<in_code_block, syntax, to_highlight, out_events>>

vars == <<postVars, loopVars, headingVars, codeVars>>

\* ---- the content directory ----
Stems == 1..NumStems

Digits == {1, 2}

DateStrings == UNION {[1..n -> Digits] : n \in 1..MaxDateLen}

FileStates ==
  {[kind |-> k, written_on |-> <<>>, public |-> FALSE] :
      k \in {"absent", "dir", "unreadable", "nomatter", "badfield"}}
  \cup {[kind |-> "post", written_on |-> d, public |-> p] :
      d \in DateStrings, p \in BOOLEAN}

\* ---- results seen by the caller ----
Outcome(kind, posts, msg) == [kind |-> kind, posts |-> posts, msg |-> msg]

NoCall == Outcome("none", <<>>, "")

Panic(msg) == Outcome("panic", <<>>, msg)

\* ---- strings ----
RECURSIVE Rev(_)
Rev(s) == IF s = <<>> THEN <<>> ELSE Append(Rev(Tail(s)), Head(s))

RECURSIVE StrLess(_, _)
StrLess(a, b) ==
  IF b = <<>> THEN FALSE
  ELSE IF a = <<>> THEN TRUE
  ELSE IF Head(a) # Head(b) THEN Head(a) < Head(b)
  ELSE StrLess(Tail(a), Tail(b))

StrLeq(a, b) == a = b \/ StrLess(a, b)

\* ---- posts.rs ----
Post(path, f) ==
  [path |-> path, html_content |-> "html",
   metadata |-> [title |-> "title", written_on |-> f.written_on,
                 public |-> f.public]]

extract_post(path, f) ==
  IF f.kind = "nomatter" THEN Panic("unwrap on None: matter.data")
  ELSE IF f.kind = "badfield" THEN Panic("unwrap on None: metadata field")
  ELSE Outcome("Ok", <<Post(path, f)>>, "")

RECURSIVE ReadEntries(_, _)
ReadEntries(order, posts) ==
  IF order = <<>> THEN Outcome("Ok", posts, "")
  ELSE LET f == files[Head(order)] IN
    IF f.kind = "dir" THEN ReadEntries(Tail(order), posts)
    ELSE IF f.kind = "unreadable" THEN Panic("failed to read file")
    ELSE LET r == extract_post(Head(order), f) IN
      IF r.kind = "panic" THEN r
      ELSE ReadEntries(Tail(order), posts \o r.posts)

RetainPublicAll(posts) == posts

RetainPublic(posts) == SelectSeq(posts, LAMBDA p : p.metadata.public)

CmpLeq(a, b) ==
  StrLeq(Rev(a.metadata.written_on), Rev(b.metadata.written_on))

\* Vec::sort_by is a stable sort: the result is the one ordered permutation
\* that keeps equal elements in their original order.
RECURSIVE Insert(_, _)
Insert(sorted, p) ==
  IF sorted = <<>> THEN <<p>>
  ELSE IF CmpLeq(Head(sorted), p) THEN <<Head(sorted)>> \o Insert(Tail(sorted), p)
  ELSE <<p>> \o sorted

RECURSIVE SortBy(_)
SortBy(posts) ==
  IF posts = <<>> THEN <<>>
  ELSE Insert(SortBy(SubSeq(posts, 1, Len(posts) - 1)), posts[Len(posts)])

get_all_posts(order) ==
  IF ~content_dir THEN Panic("unwrap on Err: read_dir")
  ELSE LET r == ReadEntries(order, <<>>) IN
    IF r.kind = "panic" THEN r
    ELSE Outcome("Ok", SortBy(RetainPublic(r.posts)), "")

get_post_by_path(path) ==
  LET f == files[path] IN
  IF f.kind = "absent" THEN Panic("failed to open file")
  ELSE IF f.kind \in {"dir", "unreadable"} THEN Panic("failed to read file")
  ELSE LET r == extract_post(path, f) IN
    IF r.kind = "panic" THEN r
    ELSE IF r.posts[1].metadata.public THEN r
    ELSE Outcome("Err", <<>>, "Post not found")

\* ---- the directory enumeration orders read_dir may produce ----
Entries == {s \in Stems : files[s].kind # "absent"}

Orders ==
  {o \in [1..Cardinality(Entries) -> Entries] :
      \A i, j \in 1..Cardinality(Entries) : i # j => o[i] # o[j]}

\* ---- specification of the post repository ----
NoTransform ==
  /\ events = <<>>
  /\ pc = "idle"
  /\ cursor = 1
  /\ parsing_header = FALSE
  /\ heading_id = <<>>
  /\ events_to_return = <<>>
  /\ in_code_block = FALSE
  /\ syntax = "Plain Text"
  /\ to_highlight = <<>>
  /\ out_events = <<>>

Init ==
  /\ NoTransform
  /\ content_dir \in BOOLEAN
  /\ files \in [Stems -> FileStates]
  /\ content_dir = FALSE => \A s \in Stems : files[s].kind = "absent"
  /\ listing = NoCall
  /\ lookup = [s \in Stems |-> NoCall]

GetAllPosts ==
  /\ \E order \in Orders : listing' = get_all_posts(order)
  /\ UNCHANGED <<content_dir, files, lookup, loopVars, headingVars, codeVars>>

GetPostByPath ==
  /\ \E path \in Stems : lookup' = [lookup EXCEPT ![path] = get_post_by_path(path)]
  /\ UNCHANGED <<content_dir, files, listing, loopVars, headingVars, codeVars>>

Next == GetAllPosts \/ GetPostByPath

Spec == Init /\ [][Next]_vars

\* ---- pulldown_cmark events ----
Ev(type, tag, kind, lang, text, href, id) ==
  [type |-> type, tag |-> tag, kind |-> kind, lang |-> lang, text |-> text,
   href |-> href, id |-> id]

StartTag(tag) == Ev("Start", tag, "", "", <<>>, <<>>, <<>>)

EndTag(tag) == Ev("End", tag, "", "", <<>>, <<>>, <<>>)

StartCodeBlock(kind, lang) == Ev("Start", "CodeBlock", kind, lang, <<>>, <<>>, <<>>)

Text(t) == Ev("Text", "", "", "", t, <<>>, <<>>)

Code(t) == Ev("Code", "", "", "", t, <<>>, <<>>)

\* Event::Html of format!("<a href=\"#{}\" id=\"{}\">...", href, id)
AnchorHtml(href, id) == Ev("Html", "anchor", "", "", <<>>, href, id)

\* Event::Html of highlighted_html_for_string(text, syntax_set, syntax, theme)
HighlightedHtml(text, syn) == Ev("Html", "highlighted", "", syn, text, <<>>, <<>>)

\* ---- slug::slugify, on ASCII code points ----
RECURSIVE SlugPush(_, _, _)
SlugPush(s, slug, prev_is_dash) ==
  IF s = <<>> THEN slug
  ELSE LET x == Head(s) IN
    IF x \in 97..122 \/ x \in 48..57
      THEN SlugPush(Tail(s), Append(slug, x), FALSE)
    ELSE IF x \in 65..90
      THEN SlugPush(Tail(s), Append(slug, x - 65 + 97), FALSE)
    ELSE IF ~prev_is_dash
      THEN SlugPush(Tail(s), Append(slug, 45), TRUE)
    ELSE SlugPush(Tail(s), slug, TRUE)

slugify(s) ==
  LET slug == SlugPush(s, <<>>, TRUE) IN
  IF slug # <<>> /\ slug[Len(slug)] = 45
    THEN SubSeq(slug, 1, Len(slug) - 1) ELSE slug

\* ---- add_markdown_heading_ids: one action per arm of the match ----
event == events[cursor]

InHeadingLoop == pc = "headings" /\ cursor <= Len(events)

HeadingStart ==
  /\ InHeadingLoop
  /\ event.type = "Start" /\ event.tag = "Heading"
  /\ parsing_header' = TRUE
  /\ heading_id' = <<>>
  /\ events_to_return' = Append(events_to_return, event)
  /\ cursor' = cursor + 1
  /\ UNCHANGED <<events, pc, postVars, codeVars>>

HeadingEndAnchorAfter ==
  /\ InHeadingLoop
  /\ event.type = "End" /\ event.tag = "Heading"
  /\ parsing_header' = FALSE
  /\ heading_id' = slugify(heading_id)
  /\ events_to_return' =
       events_to_return \o <<event, Text(<<32>>), AnchorHtml(heading_id', heading_id')>>
  /\ cursor' = cursor + 1
  /\ UNCHANGED <<events, pc, postVars, codeVars>>

HeadingEnd ==
  /\ InHeadingLoop
  /\ event.type = "End" /\ event.tag = "Heading"
  /\ parsing_header' = FALSE
  /\ heading_id' = slugify(heading_id)
  /\ events_to_return' =
       events_to_return \o <<Text(<<32>>), AnchorHtml(heading_id', heading_id'), event>>
  /\ cursor' = cursor + 1
  /\ UNCHANGED <<events, pc, postVars, codeVars>>

HeadingTextSwallowed ==
  /\ InHeadingLoop
  /\ event.type = "Text"
  /\ heading_id' = IF parsing_header THEN heading_id \o event.text ELSE heading_id
  /\ events_to_return' =
       IF parsing_header THEN events_to_return ELSE Append(events_to_return, event)
  /\ cursor' = cursor + 1
  /\ UNCHANGED <<events, pc, parsing_header, postVars, codeVars>>

HeadingText ==
  /\ InHeadingLoop
  /\ event.type = "Text"
  /\ heading_id' = IF parsing_header THEN heading_id \o event.text ELSE heading_id
  /\ events_to_return' = Append(events_to_return, event)
  /\ cursor' = cursor + 1
  /\ UNCHANGED <<events, pc, parsing_header, postVars, codeVars>>

HeadingOther ==
  /\ InHeadingLoop
  /\ ~(event.type \in {"Start", "End"} /\ event.tag = "Heading")
  /\ event.type # "Text"
  /\ events_to_return' = Append(events_to_return, event)
  /\ cursor' = cursor + 1
  /\ UNCHANGED <<events, pc, parsing_header, heading_id, postVars, codeVars>>

HeadingReturn ==
  /\ pc = "headings" /\ cursor > Len(events)
  /\ pc' = "done"
  /\ UNCHANGED <<events, cursor, headingVars, postVars, codeVars>>

\* ---- the event sequences handed to add_markdown_heading_ids ----
TextValues == {<<72, 105>>, <<32, 120>>}

CodeValues == {<<102>>}

HeadingAlphabet ==
  {StartTag("Heading"), EndTag("Heading"), StartTag("Emphasis"), EndTag("Emphasis")}
  \cup {Text(t) : t \in TextValues} \cup {Code(t) : t \in CodeValues}

NoPosts ==
  /\ content_dir = FALSE
  /\ files = [s \in Stems |-> [kind |-> "absent", written_on |-> <<>>, public |-> FALSE]]
  /\ listing = NoCall
  /\ lookup = [s \in Stems |-> NoCall]

HeadingInit ==
  /\ NoPosts
  /\ events \in UNION {[1..n -> HeadingAlphabet] : n \in 0..MaxEvents}
  /\ pc = "headings"
  /\ cursor = 1
  /\ parsing_header = FALSE
  /\ heading_id = <<>>
  /\ events_to_return = <<>>
  /\ in_code_block = FALSE
  /\ syntax = "Plain Text"
  /\ to_highlight = <<>>
  /\ out_events = <<>>

HeadingNext ==
  HeadingStart \/ HeadingEnd \/ HeadingText \/ HeadingOther \/ HeadingReturn

HeadingSpec == HeadingInit /\ [][HeadingNext]_vars

\* ---- highlight_code: one action per arm of the match ----
\* SyntaxSet::find_syntax_by_token: an Option, here a sequence of length <= 1
find_syntax_by_token(lang) == IF lang = "rust" THEN <<"Rust">> ELSE <<>>

unwrap_or(opt, default) == IF opt = <<>> THEN default ELSE opt[1]

find_syntax_plain_text == "Plain Text"

InCodeLoop == pc = "highlight" /\ cursor <= Len(events)

CodeBlockStart ==
  /\ InCodeLoop
  /\ event.type = "Start" /\ event.tag = "CodeBlock"
  /\ syntax' = IF event.kind = "Fenced"
                 THEN unwrap_or(find_syntax_by_token(event.lang), syntax)
                 ELSE syntax
  /\ in_code_block' = TRUE
  /\ cursor' = cursor + 1
  /\ UNCHANGED <<events, pc, to_highlight, out_events, postVars, headingVars>>

CodeBlockEnd ==
  /\ InCodeLoop
  /\ event.type = "End" /\ event.tag = "CodeBlock"
  /\ IF ~in_code_block
       THEN /\ pc' = "panicked"
            /\ UNCHANGED <<cursor, codeVars>>
       ELSE /\ out_events' = Append(out_events, HighlightedHtml(to_highlight, syntax))
            /\ to_highlight' = <<>>
            /\ in_code_block' = FALSE
            /\ cursor' = cursor + 1
            /\ UNCHANGED <<pc, syntax>>
  /\ UNCHANGED <<events, postVars, headingVars>>

CodeTextForwarded ==
  /\ InCodeLoop
  /\ event.type = "Text"
  /\ to_highlight' = IF in_code_block THEN to_highlight \o event.text ELSE to_highlight
  /\ out_events' = Append(out_events, event)
  /\ cursor' = cursor + 1
  /\ UNCHANGED <<events, pc, in_code_block, syntax, postVars, headingVars>>

CodeText ==
  /\ InCodeLoop
  /\ event.type = "Text"
  /\ IF in_code_block
       THEN /\ to_highlight' = to_highlight \o event.text
            /\ UNCHANGED out_events
       ELSE /\ out_events' = Append(out_events, event)
            /\ UNCHANGED to_highlight
  /\ cursor' = cursor + 1
  /\ UNCHANGED <<events, pc, in_code_block, syntax, postVars, headingVars>>

CodeOther ==
  /\ InCodeLoop
  /\ ~(event.type \in {"Start", "End"} /\ event.tag = "CodeBlock")
  /\ event.type # "Text"
  /\ out_events' = Append(out_events, event)
  /\ cursor' = cursor + 1
  /\ UNCHANGED <<events, pc, in_code_block, syntax, to_highlight, postVars, headingVars>>

CodeReturn ==
  /\ pc = "highlight" /\ cursor > Len(events)
  /\ pc' = "done"
  /\ UNCHANGED <<events, cursor, codeVars, postVars, headingVars>>

\* ---- the event sequences handed to highlight_code ----
Langs == {"rust", "", "zzz"}

CodeAlphabet ==
  {StartCodeBlock("Fenced", l) : l \in Langs}
  \cup {StartCodeBlock("Indented", ""), EndTag("CodeBlock"), StartTag("Emphasis")}
  \cup {Text(t) : t \in TextValues}

HighlightInit ==
  /\ NoPosts
  /\ events \in UNION {[1..n -> CodeAlphabet] : n \in 0..MaxEvents}
  /\ pc = "highlight"
  /\ cursor = 1
  /\ parsing_header = FALSE
  /\ heading_id = <<>>
  /\ events_to_return = <<>>
  /\ in_code_block = FALSE
  /\ syntax = find_syntax_plain_text
  /\ to_highlight = <<>>
  /\ out_events = <<>>

HighlightNext ==
  CodeBlockStart \/ CodeBlockEnd \/ CodeText \/ CodeOther \/ CodeReturn

HighlightSpec == HighlightInit /\ [][HighlightNext]_vars

(***************************************************************************)
(* Properties of the post repository, checked under Spec.                  *)
(***************************************************************************)
WrittenOn(k) == listing.posts[k].metadata.written_on

\* C1: the collection get_all_posts returns is ordered by written_on
\* descending under lexical comparison: for i < j, result[i] >= result[j].
C1_SortedDescending ==
  listing.kind = "Ok" =>
    \A a, b \in 1..Len(listing.posts) :
      a < b => StrLeq(WrittenOn(b), WrittenOn(a))

PublicStems == {s \in Stems : files[s].kind = "post" /\ files[s].public}

PrivateStems == {s \in Stems : files[s].kind = "post" /\ ~files[s].public}

\* C2: the returned collection holds no post with public = false and holds
\* every constructed post with public = true (once each, with its metadata).
C2_OnlyAndEveryPublicPost ==
  listing.kind = "Ok" =>
    /\ \A k \in 1..Len(listing.posts) : listing.posts[k].metadata.public
    /\ \A s \in PublicStems :
         Cardinality({k \in 1..Len(listing.posts) :
            /\ listing.posts[k].path = s
            /\ WrittenOn(k) = files[s].written_on}) = 1

C2_Witness ==
  /\ listing.kind = "Ok"
  /\ PublicStems # {}
  /\ PrivateStems # {}
  /\ Len(listing.posts) = Cardinality(PublicStems)

\* C3: get_post_by_path on the stem of a private post gives its caller the
\* same outcome as on a stem with no file.
C3_PrivateSameAsAbsent ==
  \A s \in PrivateStems : \A t \in Stems :
    (files[t].kind = "absent" /\ lookup[s].kind # "none" /\ lookup[t].kind # "none")
      => (lookup[s].kind = lookup[t].kind /\ lookup[s].msg = lookup[t].msg)

FailingStems ==
  {s \in Stems : files[s].kind \in {"unreadable", "nomatter", "badfield"}}

\* C7: when a file fails during get_all_posts, or the file is missing in
\* get_post_by_path, the caller gets an error value: no partial collection
\* and no panic.
C7_FailureIsAnErrorValue ==
  /\ (listing.kind # "none" /\ FailingStems # {}) => listing.kind = "Err"
  /\ \A s \in Stems :
       (lookup[s].kind # "none" /\ files[s].kind = "absent") => lookup[s].kind = "Err"

\* C10: two calls of get_all_posts over the same files return the same
\* sequence, whatever order the directory was enumerated in.
C10_OrderIndependent ==
  [][(listing.kind = "Ok" /\ listing'.kind = "Ok") => listing'.posts = listing.posts]_vars

(***************************************************************************)
(* Properties of add_markdown_heading_ids, checked under HeadingSpec.      *)
(***************************************************************************)
IsStartH(e) == e.type = "Start" /\ e.tag = "Heading"

IsEndH(e) == e.type = "End" /\ e.tag = "Heading"

IsAnchor(e) == e.type = "Html" /\ e.tag = "anchor"

HeadingEnds == {j \in 1..Len(events) : IsEndH(events[j])}

\* the start event of the heading that ends at j (0: j ends no heading)
HeadingStartOf(j) ==
  LET c == {k \in 1..(j - 1) :
              /\ IsStartH(events[k])
              /\ \A m \in (k + 1)..(j - 1) :
                   ~IsStartH(events[m]) /\ ~IsEndH(events[m])}
  IN IF c = {} THEN 0 ELSE CHOOSE k \in c : TRUE

Headings == {j \in HeadingEnds : HeadingStartOf(j) # 0}

RECURSIVE ConcatText(_, _)
ConcatText(seq, types) ==
  IF seq = <<>> THEN <<>>
  ELSE (IF Head(seq).type \in types THEN Head(seq).text ELSE <<>>)
         \o ConcatText(Tail(seq), types)

HeadingContent(j) == SubSeq(events, HeadingStartOf(j) + 1, j - 1)

HeadingRank(j) == Cardinality({m \in HeadingEnds : m <= j})

\* position in the output of the n-th event satisfying P (0: there is none)
NthPos(out, P(_), n) ==
  LET c == {p \in 1..Len(out) :
              P(out[p]) /\ Cardinality({q \in 1..p : P(out[q])}) = n}
  IN IF c = {} THEN 0 ELSE CHOOSE p \in c : TRUE

OutEnd(j) == NthPos(events_to_return, IsEndH, HeadingRank(j))

TextSlugAnchor(j) ==
  LET id == slugify(ConcatText(HeadingContent(j), {"Text"}))
  IN AnchorHtml(id, id)

\* C5 as stated: each heading's end event is followed immediately by one
\* space text and one anchor whose href and id are the heading's slug.
C5_AnchorAfterEnd ==
  pc = "done" =>
    \A j \in Headings :
      LET p == OutEnd(j) IN
        /\ p # 0 /\ p + 2 <= Len(events_to_return)
        /\ events_to_return[p + 1] = Text(<<32>>)
        /\ events_to_return[p + 2] = TextSlugAnchor(j)

\* C5 amended: each heading's end event is preceded immediately by one space
\* text and one anchor whose href and id are the slug of the heading's text
\* events; the heading's start and content come unchanged right before them,
\* and that stretch of the output holds exactly one anchor.
C5_AnchorBeforeEnd ==
  pc = "done" =>
    \A j \in Headings :
      LET p == OutEnd(j)
          n == j - HeadingStartOf(j)
      IN
        /\ p >= n + 3
        /\ events_to_return[p - 2] = Text(<<32>>)
        /\ events_to_return[p - 1] = TextSlugAnchor(j)
        /\ SubSeq(events_to_return, p - 2 - n, p - 3) = SubSeq(events, HeadingStartOf(j), j - 1)
        /\ Cardinality({q \in (p - 2 - n)..p : IsAnchor(events_to_return[q])}) = 1

C5_Witness ==
  /\ pc = "done"
  /\ \E j \in Headings :
       /\ ConcatText(HeadingContent(j), {"Text"}) # <<>>
       /\ j < Len(events)

\* C8: the slug in a heading's anchor is the slug of the text content of
\* everything inside that heading, in order, inline code spans included.
C8_SlugOfAllInlineText ==
  pc = "done" =>
    \A j \in Headings :
      LET p == NthPos(events_to_return, IsAnchor, HeadingRank(j))
          id == slugify(ConcatText(HeadingContent(j), {"Text", "Code"}))
      IN p # 0 /\ events_to_return[p] = AnchorHtml(id, id)

\* the sequence without its injected pairs: every anchor event and the
\* space text right before it
RECURSIVE StripInjected(_)
StripInjected(seq) ==
  IF seq = <<>> THEN <<>>
  ELSE IF Len(seq) >= 2 /\ seq[1] = Text(<<32>>) /\ IsAnchor(seq[2])
    THEN StripInjected(SubSeq(seq, 3, Len(seq)))
  ELSE <<Head(seq)>> \o StripInjected(Tail(seq))

\* C11: add_markdown_heading_ids only adds events and keeps order: the
\* output without the injected space-text and anchor events is the input
\* consumed so far (the whole input at the end), and the output is longer
\* than it by two events per heading end.
C11_OnlyAddsEvents ==
  pc \in {"headings", "done"} =>
    /\ StripInjected(events_to_return) = SubSeq(events, 1, cursor - 1)
    /\ Len(events_to_return) =
         (cursor - 1) + 2 * Cardinality({j \in HeadingEnds : j < cursor})

C11_Witness ==
  /\ pc = "done"
  /\ Len(events_to_return) = Len(events) + 4
  /\ \E k \in 1..Len(events) : events[k].type = "Text"
  /\ \E k \in 1..Len(events) : events[k].type = "Code"

(***************************************************************************)
(* Properties of highlight_code, checked under HighlightSpec.              *)
(***************************************************************************)
IsStartCB(e) == e.type = "Start" /\ e.tag = "CodeBlock"

IsEndCB(e) == e.type = "End" /\ e.tag = "CodeBlock"

IsHighlighted(e) == e.type = "Html" /\ e.tag = "highlighted"

\* a code block is open just before event k
OpenBefore(k) ==
  \E m \in 1..(k - 1) :
    IsStartCB(events[m]) /\ \A n \in (m + 1)..(k - 1) : ~IsEndCB(events[n])

Mismatch(k) ==
  \/ IsStartCB(events[k]) /\ OpenBefore(k)
  \/ IsEndCB(events[k]) /\ ~OpenBefore(k)

WellNested ==
  /\ \A k \in 1..Len(events) : ~Mismatch(k)
  /\ ~OpenBefore(Len(events) + 1)

CodeBlockEnds == {j \in 1..Len(events) : IsEndCB(events[j])}

Blocks == {j \in CodeBlockEnds : OpenBefore(j)}

\* the start event that opened the block ending at j
OpenerOf(j) ==
  CHOOSE m \in 1..(j - 1) :
    /\ IsStartCB(events[m])
    /\ \A n \in (m + 1)..(j - 1) : ~IsEndCB(events[n])
    /\ \A n \in 1..(m - 1) :
         IsStartCB(events[n]) => \E q \in (n + 1)..(m - 1) : IsEndCB(events[q])

NoGrammar(e) == e.kind = "Indented" \/ e.lang \in {"", "zzz"}

BlockRank(j) == Cardinality({m \in CodeBlockEnds : m <= j})

FragmentOf(j) == out_events[NthPos(out_events, IsHighlighted, BlockRank(j))]

\* C4: a code block whose fence token is empty, absent or unrecognized is
\* rendered with the plain-text grammar wherever it stands in the sequence,
\* and the transformer does not fail on it.  (Stated for well-nested
\* sequences; mismatched ones are the subject of C9.)
C4_PlainTextFallback ==
  WellNested =>
    /\ pc # "panicked"
    /\ pc = "done" =>
         \A j \in Blocks :
           NoGrammar(events[OpenerOf(j)]) => FragmentOf(j).lang = "Plain Text"

\* an event the transformer forwards or replaces: every event but a code
\* block's start and the text inside a code block
Kept(k) == ~IsStartCB(events[k]) /\ ~(events[k].type = "Text" /\ OpenBefore(k))

OutPos(k) == Cardinality({m \in 1..k : Kept(m)})

BlockText(j) == ConcatText(SubSeq(events, OpenerOf(j) + 1, j - 1), {"Text"})

\* C6: on a well-nested sequence the output holds exactly one highlighted
\* fragment per code block, where the block stood; no start, end or text
\* event of a code block is forwarded; text outside code blocks is forwarded
\* unchanged.
C6_OneFragmentPerBlock ==
  WellNested =>
    /\ pc # "panicked"
    /\ pc = "done" =>
         /\ Len(out_events) = OutPos(Len(events))
         /\ Cardinality({p \in 1..Len(out_events) : IsHighlighted(out_events[p])})
              = Cardinality(Blocks)
         /\ \A p \in 1..Len(out_events) :
              ~IsStartCB(out_events[p]) /\ ~IsEndCB(out_events[p])
         /\ \A k \in 1..Len(events) :
              Kept(k) =>
                IF IsEndCB(events[k])
                  THEN /\ IsHighlighted(out_events[OutPos(k)])
                       /\ out_events[OutPos(k)].text = BlockText(k)
                  ELSE out_events[OutPos(k)] = events[k]

C6_Witness ==
  /\ pc = "done"
  /\ WellNested
  /\ \E j \in Blocks : BlockText(j) # <<>>
  /\ \E k \in 1..Len(events) : events[k].type = "Text" /\ ~OpenBefore(k)

\* C9: a code-block start while a block is open, or a code-block end with no
\* open block, aborts the transformer: it returns no output sequence.
C9_MismatchIsFatal ==
  pc = "done" => \A k \in 1..Len(events) : ~Mismatch(k)

====
